---- MODULE Spec2Model ----
(***************************************************************************)
(* The batching mux/demux relay of wazuh: producers submit Messages on the *)
(* mux channel, the Batcher (framework/wazuh/core/batcher/batcher.py)      *)
(* buffers them, flushes batches to the indexer bulk endpoint in detached  *)
(* tasks and sends the per-item responses to the demux side.               *)
(***************************************************************************)
EXTENDS Integers, Sequences, FiniteSets, TLC

\* ---- bounds of the model ------------------------------------------------
NumMsgs == 3          \* number of producers (one submitted Message each)
MaxDoc == 3           \* a document is 1 or MaxDoc bytes long
MaxCfgElements == 3   \* BatcherConfig.max_elements ranges over 1..MaxCfgElements
MaxCfgSize == 4       \* BatcherConfig.max_size ranges over 1..MaxCfgSize
MaxRequests == 2      \* number of POST /events/stateful requests
MaxEvents == 2        \* a request carries 1..MaxEvents events

Uids == 1..NumMsgs
\* a document is modelled by its length in bytes
Docs == {1, MaxDoc}

VARIABLES
    max_elements,   \* BatcherConfig.max_elements
    max_size,       \* BatcherConfig.max_size
    running,        \* the BatcherProcess is alive
    nextUid,        \* next fresh uid a producer generates
    mux,            \* MuxDemuxQueue: the shared inbound channel (FIFO)
    demux,          \* MuxDemuxQueue: uid -> response slot (<<>> = empty, <<r>> = response r)
    recv,           \* the receive thread of the current loop iteration: <<>> or <<m>>
    orphans,        \* cancelled receive attempts still blocked in receive_from_mux
    lost,           \* Messages dequeued by a receive attempt whose task was cancelled
    buffer,         \* Buffer: the ordered Messages
    byte_size,      \* Buffer: running byte total
    timer,          \* TimerManager: disarmed / armed / fired
    tasks,          \* the flush tasks, in creation order
    received,       \* history: Messages the main loop took from its receive task
    timedout,       \* history: uids whose producer gave up at its deadline
    http            \* the finished calls of post_stateful_events, in order

vars == <<max_elements, max_size, running, nextUid, mux, demux, recv,
          orphans, lost, buffer, byte_size, timer, tasks, received, timedout, http>>

\* ---- data ----------------------------------------------------------------
Message(uid, msg) == [uid |-> uid, msg |-> msg]

SizeOf(doc) == doc

\* the `create` sub-object of a bulk response item
CreateOk == [status |-> 201, reason |-> "none"]
CreateBad == [status |-> 400, reason |-> "bad"]
Creates == {CreateOk, CreateBad}

RECURSIVE SumSize(_)
SumSize(s) == IF s = <<>> THEN 0 ELSE SizeOf(Head(s).msg) + SumSize(Tail(s))

Front(s) == SubSeq(s, 1, Len(s) - 1)

Min(a, b) == IF a < b THEN a ELSE b

\* ---- Buffer (wazuh.core.batcher.buffer) ----------------------------------
\* The batcher state the loop body works on, as one record.
Cur == [buffer |-> buffer, byte_size |-> byte_size, timer |-> timer, tasks |-> tasks]

get_length(s) == Len(s.buffer)

add_message(s, m) ==
    [s EXCEPT !.buffer = Append(@, m), !.byte_size = @ + SizeOf(m.msg)]

check_count_limit(s) == Len(s.buffer) >= max_elements

check_size_limit(s) == s.byte_size >= max_size

buffer_copy(s) == s.buffer

buffer_reset(s) == [s EXCEPT !.buffer = <<>>, !.byte_size = 0]

\* ---- TimerManager (wazuh.core.batcher.timer) -----------------------------
create_timer_task(s) == [s EXCEPT !.timer = "armed"]

reset_timer(s) == [s EXCEPT !.timer = "disarmed"]

\* ---- Batcher -------------------------------------------------------------
\* (mutant) bulk_list built back to front
BulkListReversed(events) ==
    [j \in 1..Len(events) |->
        [op |-> "create", id |-> "none", doc |-> events[Len(events) + 1 - j].msg]]

\* bulk_list of _send_buffer: one create operation per event, in order
BulkList(events) ==
    [j \in 1..Len(events) |-> [op |-> "create", id |-> "none", doc |-> events[j].msg]]

\* a task running _send_buffer(events); cause records the branch of run() that
\* created it ("timeout" or "limit")
NewTask(events, cause) ==
    [events |-> events, cause |-> cause, st |-> "created", bulk |-> <<>>,
     items |-> <<>>, sent |-> <<>>]

\* (mutant) the snapshot is handed over but the buffer is not reset
CreateFlushNoReset(s, cause) ==
    [s EXCEPT !.tasks = Append(@, NewTask(buffer_copy(s), cause))]

create_flush_buffer_task(s, cause) ==
    buffer_reset([s EXCEPT !.tasks = Append(@, NewTask(buffer_copy(s), cause))])

\* (mutant) the timeout branch resets the timer without flushing
TimeoutBranchNoFlush(s) == reset_timer(s)

\* run(), the branch of a completed timer wait
TimeoutBranch(s) == reset_timer(create_flush_buffer_task(s, "timeout"))

\* (mutant) the receive branch checks the size limit only
MessageBranchNoCount(s, m) ==
    LET s1 == IF get_length(s) = 0 THEN create_timer_task(s) ELSE s
        s2 == add_message(s1, m)
    IN  IF check_size_limit(s2)
        THEN reset_timer(create_flush_buffer_task(s2, "limit"))
        ELSE s2

\* (mutant) the receive branch checks the count limit only
MessageBranchNoSize(s, m) ==
    LET s1 == IF get_length(s) = 0 THEN create_timer_task(s) ELSE s
        s2 == add_message(s1, m)
    IN  IF check_count_limit(s2)
        THEN reset_timer(create_flush_buffer_task(s2, "limit"))
        ELSE s2

\* (mutant) every received Message arms the timer again
MessageBranchRearm(s, m) ==
    LET s2 == add_message(create_timer_task(s), m)
    IN  IF check_count_limit(s2) \/ check_size_limit(s2)
        THEN reset_timer(create_flush_buffer_task(s2, "limit"))
        ELSE s2

\* (mutant) every received Message is flushed at once
MessageBranchAlwaysFlush(s, m) ==
    LET s1 == IF get_length(s) = 0 THEN create_timer_task(s) ELSE s
        s2 == add_message(s1, m)
    IN  reset_timer(create_flush_buffer_task(s2, "limit"))

\* run(), the branch of a completed receive
MessageBranch(s, m) ==
    LET s1 == IF get_length(s) = 0 THEN create_timer_task(s) ELSE s
        s2 == add_message(s1, m)
    IN  IF check_count_limit(s2) \/ check_size_limit(s2)
        THEN reset_timer(create_flush_buffer_task(s2, "limit"))
        ELSE s2

Apply(s) ==
    /\ buffer' = s.buffer
    /\ byte_size' = s.byte_size
    /\ timer' = s.timer
    /\ tasks' = s.tasks

TypeOK ==
    /\ max_elements \in 1..MaxCfgElements
    /\ max_size \in 1..MaxCfgSize
    /\ running \in BOOLEAN
    /\ nextUid \in 1..(NumMsgs + 1)
    /\ timer \in {"disarmed", "armed", "fired"}
    /\ Len(recv) <= 1

Init ==
    /\ max_elements \in 1..MaxCfgElements
    /\ max_size \in 1..MaxCfgSize
    /\ running = TRUE
    /\ nextUid = 1
    /\ mux = <<>>
    /\ demux = <<>>
    /\ recv = <<>>
    /\ orphans = 0
    /\ lost = {}
    /\ buffer = <<>>
    /\ byte_size = 0
    /\ timer = "disarmed"
    /\ tasks = <<>>
    /\ received = <<>>
    /\ timedout = {}
    /\ http = <<>>

\* ---- MuxDemuxQueue / BatcherClient (producer side) -----------------------
subscribe(d, uid) == [u \in DOMAIN d \cup {uid} |-> IF u = uid THEN <<>> ELSE d[u]]

remove_slot(d, uid) == [u \in DOMAIN d \ {uid} |-> d[u]]

\* send_to_demux: deposit into the slot of msg.uid, drop when there is none
send_to_demux(d, msg) ==
    IF msg.uid \in DOMAIN d THEN [d EXCEPT ![msg.uid] = <<msg.msg>>] ELSE d

\* a producer generates a fresh uid, subscribes and sends its Message to the mux
Submit(doc) ==
    /\ nextUid <= NumMsgs
    /\ demux' = subscribe(demux, nextUid)
    /\ mux' = Append(mux, Message(nextUid, doc))
    /\ nextUid' = nextUid + 1
    /\ UNCHANGED <<http, max_elements, max_size, running, recv, orphans, lost,
                   buffer, byte_size, timer, tasks, received, timedout>>

\* the producer's deadline expires before its response arrived
ProducerTimeout(u) ==
    /\ u \in DOMAIN demux
    /\ demux[u] = <<>>
    /\ demux' = remove_slot(demux, u)
    /\ timedout' = timedout \cup {u}
    /\ UNCHANGED <<http, max_elements, max_size, running, nextUid, mux, recv, orphans,
                   lost, buffer, byte_size, timer, tasks, received>>

\* ---- Batcher: the receive attempts ---------------------------------------
\* the executor thread of the current _get_from_queue takes a Message
ReceiveFromMux ==
    /\ running
    /\ recv = <<>>
    /\ mux # <<>>
    /\ recv' = <<Head(mux)>>
    /\ mux' = Tail(mux)
    /\ UNCHANGED <<http, max_elements, max_size, running, nextUid, demux, orphans,
                   lost, buffer, byte_size, timer, tasks, received, timedout>>

\* the executor thread of a cancelled _get_from_queue takes a Message: the
\* thread cannot be cancelled, its result goes to a cancelled future
OrphanReceive ==
    /\ running
    /\ orphans > 0
    /\ mux # <<>>
    /\ lost' = lost \cup {Head(mux)}
    /\ orphans' = orphans - 1
    /\ mux' = Tail(mux)
    /\ UNCHANGED <<http, max_elements, max_size, running, nextUid, demux, recv,
                   buffer, byte_size, timer, tasks, received, timedout>>

\* the deadline of the armed timer passes
TimerExpire ==
    /\ running
    /\ timer = "armed"
    /\ timer' = "fired"
    /\ UNCHANGED <<http, max_elements, max_size, running, nextUid, mux, demux,
                   recv, orphans, lost, buffer, byte_size, tasks, received, timedout>>

\* ---- Batcher.run: one loop iteration -------------------------------------
\* p_task.cancel() on the pending receive
CancelPending ==
    /\ orphans' = IF recv = <<>> THEN orphans + 1 ELSE orphans
    /\ lost' = IF recv = <<>> THEN lost ELSE lost \cup {recv[1]}
    /\ recv' = <<>>

\* done = {receive}
RunMessage ==
    /\ running
    /\ recv # <<>>
    /\ Apply(MessageBranch(Cur, recv[1]))
    /\ received' = Append(received, recv[1])
    /\ recv' = <<>>
    /\ UNCHANGED <<http, max_elements, max_size, running, nextUid, mux, demux,
                   orphans, lost, timedout>>

\* done = {timer wait}, pending = {receive}
RunTimeout ==
    /\ running
    /\ timer = "fired"
    /\ CancelPending
    /\ Apply(TimeoutBranch(Cur))
    /\ UNCHANGED <<http, max_elements, max_size, running, nextUid, mux, demux,
                   received, timedout>>

\* done = {receive, timer wait}, the loop over done takes the receive first
RunBothMessageFirst ==
    /\ running
    /\ recv # <<>>
    /\ timer = "fired"
    /\ Apply(TimeoutBranch(MessageBranch(Cur, recv[1])))
    /\ received' = Append(received, recv[1])
    /\ recv' = <<>>
    /\ UNCHANGED <<http, max_elements, max_size, running, nextUid, mux, demux,
                   orphans, lost, timedout>>

\* done = {receive, timer wait}, the loop over done takes the timer wait first
RunBothTimerFirst ==
    /\ running
    /\ recv # <<>>
    /\ timer = "fired"
    /\ Apply(MessageBranch(TimeoutBranch(Cur), recv[1]))
    /\ received' = Append(received, recv[1])
    /\ recv' = <<>>
    /\ UNCHANGED <<http, max_elements, max_size, running, nextUid, mux, demux,
                   orphans, lost, timedout>>

\* ---- Batcher._send_buffer: a flush task ----------------------------------
\* the task builds bulk_list and awaits indexer_client.events.bulk
SendBufferStart(i) ==
    /\ running
    /\ tasks[i].st = "created"
    /\ tasks' = [tasks EXCEPT ![i].st = "bulk", ![i].bulk = BulkList(tasks[i].events)]
    /\ UNCHANGED <<http, max_elements, max_size, running, nextUid, mux, demux, recv,
                   orphans, lost, buffer, byte_size, timer, received, timedout>>

\* (mutant) the uids are paired with the response items in the opposite order
ZipResponsesReversed(items, events) ==
    [j \in 1..Min(Len(items), Len(events)) |->
        Message(events[Len(events) + 1 - j].uid, items[j].create)]

\* zip(response["items"], list_of_uid) with Message(uid, response_item["create"])
ZipResponses(items, events) ==
    [j \in 1..Min(Len(items), Len(events)) |-> Message(events[j].uid, items[j].create)]

\* (mutant) the loop stops at the first response whose slot is gone
RECURSIVE DemuxLoopAbort(_, _)
DemuxLoopAbort(d, msgs) ==
    IF msgs = <<>> \/ Head(msgs).uid \notin DOMAIN d
    THEN d
    ELSE DemuxLoopAbort(send_to_demux(d, Head(msgs)), Tail(msgs))

\* the loop calling send_to_demux for every response Message
RECURSIVE DemuxLoop(_, _)
DemuxLoop(d, msgs) ==
    IF msgs = <<>> THEN d ELSE DemuxLoop(send_to_demux(d, Head(msgs)), Tail(msgs))

\* (mutant) a flush task resumes only after every earlier flush has finished
BulkReturnInOrder(i, creates) ==
    /\ running
    /\ tasks[i].st = "bulk"
    /\ \A k \in 1..(i - 1) : tasks[k].st \in {"done", "raised"}
    /\ LET items == [j \in 1..Len(creates) |-> [create |-> creates[j]]]
           sent == ZipResponses(items, tasks[i].events)
       IN  /\ tasks' = [tasks EXCEPT ![i].st = "done", ![i].items = items, ![i].sent = sent]
           /\ demux' = DemuxLoop(demux, sent)
    /\ UNCHANGED <<http, max_elements, max_size, running, nextUid, mux, recv,
                   orphans, lost, buffer, byte_size, timer, received, timedout>>

\* the bulk call returns one item per operation; the responses are sent
BulkReturn(i, creates) ==
    /\ running
    /\ tasks[i].st = "bulk"
    /\ LET items == [j \in 1..Len(creates) |-> [create |-> creates[j]]]
           sent == ZipResponses(items, tasks[i].events)
       IN  /\ tasks' = [tasks EXCEPT ![i].st = "done", ![i].items = items, ![i].sent = sent]
           /\ demux' = DemuxLoop(demux, sent)
    /\ UNCHANGED <<http, max_elements, max_size, running, nextUid, mux, recv,
                   orphans, lost, buffer, byte_size, timer, received, timedout>>

\* the bulk call raises: the exception leaves the task
BulkRaise(i) ==
    /\ running
    /\ tasks[i].st = "bulk"
    /\ tasks' = [tasks EXCEPT ![i].st = "raised"]
    /\ UNCHANGED <<http, max_elements, max_size, running, nextUid, mux, demux, recv,
                   orphans, lost, buffer, byte_size, timer, received, timedout>>

\* ---- BatcherProcess ------------------------------------------------------
\* the supervisor stops the worker: multiprocessing.Process.terminate()
Terminate ==
    /\ running
    /\ running' = FALSE
    /\ UNCHANGED <<http, max_elements, max_size, nextUid, mux, demux, recv, orphans,
                   lost, buffer, byte_size, timer, tasks, received, timedout>>

Next ==
    \/ \E doc \in Docs : Submit(doc)
    \/ \E u \in Uids : ProducerTimeout(u)
    \/ ReceiveFromMux
    \/ OrphanReceive
    \/ TimerExpire
    \/ RunMessage
    \/ RunTimeout
    \/ RunBothMessageFirst
    \/ RunBothTimerFirst
    \/ \E i \in 1..Len(tasks) : SendBufferStart(i)
    \/ \E i \in 1..Len(tasks) : \E creates \in [1..Len(tasks[i].bulk) -> Creates] :
           BulkReturn(i, creates)
    \/ \E i \in 1..Len(tasks) : BulkRaise(i)

\* the relay while the batcher worker runs
Spec == Init /\ [][Next]_vars

\* ---- comms_api: POST /events/stateful ------------------------------------
\* what indexer_client.events.create does with the events of a request
IndexerOutcomes(events) ==
    {[kind |-> "return", exc |-> "none", body |-> events]}
    \cup {[kind |-> "raise", exc |-> e, body |-> <<>>] :
              e \in {"WazuhError", "Timeout", "Error"}}

\* comms_api.core.events.create_stateful_events: declared with the single
\* parameter `events`; a call with any other number of arguments raises
\* TypeError before the body runs
create_stateful_events(args, indexer) ==
    IF Len(args) # 1
    THEN [kind |-> "raise", exc |-> "TypeError", body |-> <<>>]
    ELSE indexer

\* post_stateful_events: the try/except around the awaited call
HandlerResult(outcome) ==
    IF outcome.kind = "return"
    THEN [kind |-> "JSONResponse", status |-> 200, body |-> outcome.body, exc |-> "none"]
    ELSE IF outcome.exc = "WazuhError"
         THEN [kind |-> "HTTPError", status |-> 400, body |-> <<>>, exc |-> "WazuhError"]
         ELSE [kind |-> "unhandled", status |-> 0, body |-> <<>>, exc |-> outcome.exc]

\* one request handled by post_stateful_events(request, events)
PostStatefulEvents(events, indexer) ==
    /\ Len(http) < MaxRequests
    /\ LET args == <<events, "batcher_queue">>
       IN  http' = Append(http, [events |-> events, args |-> args, calls |-> 1,
                                 indexer |-> indexer,
                                 result |-> HandlerResult(create_stateful_events(args, indexer))])
    /\ UNCHANGED <<max_elements, max_size, running, nextUid, mux, demux, recv, orphans,
                   lost, buffer, byte_size, timer, tasks, received, timedout>>

EventLists == UNION {[1..n -> Docs] : n \in 1..MaxEvents}

NextHttp ==
    \E events \in EventLists : \E indexer \in IndexerOutcomes(events) :
       PostStatefulEvents(events, indexer)

\* the HTTP handler serving requests
HandlerSpec == Init /\ [][NextHttp]_vars

\* the relay with a supervisor that may stop the worker
NextStop == Next \/ Terminate

StopSpec == Init /\ [][NextStop]_vars

\* the event loop runs a ready task: the timer's sleep ends, and run() resumes
\* once the timer wait has completed
LiveSpec ==
    /\ Init
    /\ [][Next]_vars
    /\ WF_vars(TimerExpire)
    /\ WF_vars(RunTimeout \/ RunBothMessageFirst \/ RunBothTimerFirst)

\* ---- properties ----------------------------------------------------------
Range(s) == {s[j] : j \in 1..Len(s)}

TaskIds == 1..Len(tasks)

\* m is part of a batch handed to a flush task
Handed(m) == \E i \in TaskIds : m \in Range(tasks[i].events)

\* the uids of a sequence of Messages
UidsOf(s) == {s[j].uid : j \in 1..Len(s)}

RECURSIVE Batches(_)
\* the events of the first n flush tasks, concatenated in creation order
Batches(n) == IF n = 0 THEN <<>> ELSE Batches(n - 1) \o tasks[n].events

\* C1: for every flushed batch, the response Message sent for the i-th event
\* carries that event's uid and the `create` sub-object of the i-th response
\* item, unchanged; a response slot only ever holds the item of its own uid.
UidCorrelation ==
    /\ \A i \in TaskIds :
         /\ tasks[i].st = "done" =>
              /\ Len(tasks[i].items) = Len(tasks[i].events)
              /\ Len(tasks[i].sent) = Len(tasks[i].events)
         /\ \A j \in 1..Len(tasks[i].sent) :
              /\ tasks[i].sent[j].uid = tasks[i].events[j].uid
              /\ tasks[i].sent[j].msg = tasks[i].items[j].create
    /\ \A u \in DOMAIN demux :
         demux[u] # <<>> =>
           \E i \in TaskIds : \E j \in 1..Len(tasks[i].events) :
              /\ tasks[i].st = "done"
              /\ tasks[i].events[j].uid = u
              /\ demux[u] = <<tasks[i].items[j].create>>

\* a batch of two whose second item failed with status 400 / "bad", delivered
UidCorrelationWitness ==
    \E i \in TaskIds :
       /\ tasks[i].st = "done"
       /\ Len(tasks[i].events) = 2
       /\ tasks[i].items[1].create = CreateOk
       /\ tasks[i].items[2].create = CreateBad
       /\ tasks[i].events[1].uid \in DOMAIN demux
       /\ tasks[i].events[2].uid \in DOMAIN demux
       /\ demux[tasks[i].events[1].uid] = <<CreateOk>>
       /\ demux[tasks[i].events[2].uid] = <<CreateBad>>

\* C2: once the flush task of a batch has finished, whatever the outcome of
\* the bulk call, every uid of the batch was given to send_to_demux exactly once.
NoLostAck ==
    \A i \in TaskIds :
       tasks[i].st \in {"done", "raised"} =>
         \A j \in 1..Len(tasks[i].events) :
            Cardinality({k \in 1..Len(tasks[i].sent) :
                            tasks[i].sent[k].uid = tasks[i].events[j].uid}) = 1

\* C3: when the bulk call raised, every uid of the batch got a response
\* Message whose payload signals a failure.
WholeBatchFailure ==
    \A i \in TaskIds :
       tasks[i].st = "raised" =>
         \A j \in 1..Len(tasks[i].events) :
            \E k \in 1..Len(tasks[i].sent) :
               /\ tasks[i].sent[k].uid = tasks[i].events[j].uid
               /\ tasks[i].sent[k].msg.status # 201

\* C4: a Message that a cancelled receive attempt took out of the mux channel
\* is still added to the buffer and becomes part of a batch.
CancelledReceiveKeepsMessage ==
    \A m \in lost : m \in Range(buffer) \/ Handed(m)

\* C5: no batch handed to a flush task has more than max_elements items.
CountBound ==
    \A i \in TaskIds : Len(tasks[i].events) <= max_elements

\* a count-triggered batch of exactly max_elements = 3 items
CountBoundWitness ==
    /\ max_elements = 3
    /\ \E i \in TaskIds : tasks[i].cause = "limit" /\ Len(tasks[i].events) = 3

TimeTriggeredDispatch ==
    /\ [](buffer # <<>> => timer # "disarmed")
    /\ [](\A m \in Range(received) : m \in Range(buffer) \/ Handed(m))
    /\ [][timer = "fired" /\ timer' # "fired" =>
            /\ buffer' = <<>> \/ timer' = "armed"
            /\ \A m \in Range(buffer) : Handed(m)']_vars
    /\ []<>(buffer = <<>>)

\* a batch below both limits that the timer flushed
TimeTriggeredWitness ==
    \E i \in TaskIds :
       /\ tasks[i].cause = "timeout"
       /\ tasks[i].events # <<>>
       /\ Len(tasks[i].events) < max_elements
       /\ SumSize(tasks[i].events) < max_size

\* C8: the batches, in creation order and followed by the buffer, are the
\* Messages in the order the loop received them, which is the order of the mux
\* channel; the bulk operations of a batch are its documents in that order;
\* with max_elements = 3, three Messages below the size limit and no timer
\* flush there is one batch [A, B, C], and its flush task, once the bulk call
\* has returned, has sent three responses.
BatchOrder ==
    /\ Batches(Len(tasks)) \o buffer = received
    /\ \A j, k \in 1..Len(received) : j < k => received[j].uid < received[k].uid
    /\ \A i \in TaskIds :
         tasks[i].st # "created" =>
           /\ Len(tasks[i].bulk) = Len(tasks[i].events)
           /\ \A j \in 1..Len(tasks[i].events) :
                 tasks[i].bulk[j].doc = tasks[i].events[j].msg
    /\ ( /\ max_elements = 3
         /\ Len(received) = 3
         /\ SumSize(received) < max_size
         /\ \A i \in TaskIds : tasks[i].cause # "timeout" )
       => /\ Len(tasks) = 1
          /\ tasks[1].events = received
          /\ tasks[1].st = "done" => Len(tasks[1].sent) = 3

\* scenario S1: one count-triggered batch of three Messages, answered
BatchOrderWitness ==
    /\ max_elements = 3
    /\ Len(tasks) = 1
    /\ tasks[1].cause = "limit"
    /\ tasks[1].st = "done"
    /\ Len(tasks[1].events) = 3
    /\ SumSize(tasks[1].events) < max_size
    /\ Len(tasks[1].sent) = 3

\* C9: the slot of a producer that timed out stays removed; the flush of its
\* batch finishes, calls send_to_demux for every uid, and every other uid of
\* the batch has its own response item in its slot.
ProducerTimeoutDrop ==
    /\ \A u \in timedout : u \notin DOMAIN demux
    /\ \A i \in TaskIds :
         tasks[i].st = "done" =>
           /\ UidsOf(tasks[i].sent) = UidsOf(tasks[i].events)
           /\ \A j \in 1..Len(tasks[i].events) :
                 tasks[i].events[j].uid \notin timedout =>
                   /\ tasks[i].events[j].uid \in DOMAIN demux
                   /\ demux[tasks[i].events[j].uid] = <<tasks[i].items[j].create>>

\* a finished flush of a batch whose first producer had timed out and whose
\* second producer got its response
ProducerTimeoutWitness ==
    \E i \in TaskIds :
       /\ tasks[i].st = "done"
       /\ Len(tasks[i].events) >= 2
       /\ tasks[i].events[1].uid \in timedout
       /\ tasks[i].events[2].uid \in DOMAIN demux
       /\ demux[tasks[i].events[2].uid] # <<>>

\* C10: when the worker has been stopped, the buffer has been flushed and
\* every flush task has finished.
ShutdownDrains ==
    ~running =>
       /\ buffer = <<>>
       /\ \A i \in TaskIds : tasks[i].st \in {"done", "raised"}

\* C11: post_stateful_events passes the events and the batcher queue to
\* create_stateful_events exactly once; a response of the indexer comes back
\* as a 200 JSON response with that body, a WazuhError as HTTPError 400, a
\* Timeout as 504 and any other error as 500.
HandlerOutcome ==
    \A r \in 1..Len(http) :
       /\ http[r].calls = 1
       /\ http[r].args = <<http[r].events, "batcher_queue">>
       /\ http[r].indexer.kind = "return" =>
             /\ http[r].result.status = 200
             /\ http[r].result.body = http[r].indexer.body
       /\ http[r].indexer.exc = "WazuhError" =>
             http[r].result.kind = "HTTPError" /\ http[r].result.status = 400
       /\ http[r].indexer.exc = "Timeout" => http[r].result.status = 504
       /\ http[r].indexer.exc = "Error" => http[r].result.status = 500

\* C12: the indexer bulk endpoint is never invoked with an empty list of
\* operations: a flush task whose snapshot is empty does not reach the bulk call.
NoEmptyBatch ==
    \A i \in TaskIds :
       tasks[i].st \in {"bulk", "done", "raised"} => tasks[i].bulk # <<>>

\* the flush tasks a step of the loop creates
NewTasks == {tasks'[i] : i \in (Len(tasks) + 1)..Len(tasks')}

\* C13: a loop iteration that processes a received Message runs no timeout
\* flush (the timer event of that iteration is discarded), and leaves the timer
\* as it was unless the count or size limit flushed the buffer.
TieBreakMessageOnly ==
    [][received' # received =>
         /\ \A task \in NewTasks : task.cause # "timeout"
         /\ (timer = "fired" /\ buffer' # <<>>) => timer' = "fired"]_vars

\* m is larger than max_size
Oversize(m) == SizeOf(m.msg) > max_size

\* C14 (as claimed): a Message larger than max_size is flushed as a singleton
\* batch: the batch that holds it holds no other Message.
OversizeSingleton ==
    \A i \in TaskIds : \A j \in 1..Len(tasks[i].events) :
       Oversize(tasks[i].events[j]) => Len(tasks[i].events) = 1

\* C14 (amended): a Message larger than max_size that the loop received is
\* never kept in the buffer nor dropped: the limit check after its append
\* flushes it, as the last item of its batch.
OversizeFlushedAtOnce ==
    /\ \A m \in Range(received) : Oversize(m) => Handed(m) /\ m \notin Range(buffer)
    /\ \A i \in TaskIds : \A j \in 1..Len(tasks[i].events) :
          Oversize(tasks[i].events[j]) =>
            /\ j = Len(tasks[i].events)
            /\ tasks[i].cause = "limit"

\* an oversize Message flushed behind a Message that was already buffered
OversizeWitness ==
    \E i \in TaskIds :
       /\ Len(tasks[i].events) = 2
       /\ tasks[i].cause = "limit"
       /\ max_elements > 2
       /\ Oversize(tasks[i].events[2])

\* C15: at every loop-iteration boundary the timer is armed exactly when the
\* buffer is non-empty (so an expired deadline always finds Messages); it
\* becomes armed only by a Message entering an empty buffer, and a later
\* Message of the same batch leaves it as it is.
TimerLifecycle ==
    /\ [](timer # "disarmed" <=> buffer # <<>>)
    /\ [][(timer' = "armed" /\ timer # "armed") =>
             received' # received /\ Len(buffer') = 1]_vars
    /\ [][(buffer # <<>> /\ received' # received /\ Len(tasks') = Len(tasks)) =>
             timer' = timer]_vars

\* a batch still in the buffer whose deadline expired before its second
\* Message arrived, after an earlier flush
TimerLifecycleWitness ==
    /\ Len(buffer) >= 2
    /\ timer = "fired"
    /\ tasks # <<>>

\* C16: a flush task demuxes responses only for the uids of its own
\* snapshot, and the snapshots share no uid; a flush task waiting for its bulk
\* call can finish whatever the state of the other flush tasks, and the loop
\* can take its next Message or timeout while flush tasks are in flight.
NonBlockingFlush ==
    /\ \A i \in TaskIds : UidsOf(tasks[i].sent) \subseteq UidsOf(tasks[i].events)
    /\ \A i, k \in TaskIds :
          i # k => UidsOf(tasks[i].events) \cap UidsOf(tasks[k].events) = {}
    /\ \A i \in TaskIds :
          tasks[i].st = "bulk" =>
            /\ ENABLED BulkReturn(i, [j \in 1..Len(tasks[i].bulk) |-> CreateOk])
            /\ ENABLED BulkRaise(i)
    /\ recv # <<>> => ENABLED RunMessage
    /\ timer = "fired" => ENABLED RunTimeout

\* a later flush has finished while an earlier one still waits for its bulk
\* call, and the next batch is accumulating
NonBlockingWitness ==
    \E i, k \in TaskIds :
       /\ i < k
       /\ tasks[i].st = "bulk"
       /\ tasks[k].st = "done"
       /\ tasks[i].events # <<>>
       /\ tasks[k].events # <<>>
       /\ buffer # <<>>

\* C17: at most one receive attempt of the Batcher is outstanding on the mux
\* channel: next to the receive of the current iteration there is no earlier,
\* cancelled attempt still waiting in receive_from_mux.
SingleConsumer == orphans = 0

\* how often uid u occurs in the sequence of Messages s
Occurrences(u, s) == Cardinality({j \in 1..Len(s) : s[j].uid = u})

\* C18: a flush hands over exactly the Messages of the buffer and leaves the
\* buffer empty with a zero byte total; a batch never changes after it was
\* handed over; every Message added to the buffer is in the buffer or in
\* exactly one batch, once.
AtomicSnapshot ==
    /\ [](\A u \in Uids :
            Occurrences(u, Batches(Len(tasks)) \o buffer) =
               IF u \in UidsOf(received) THEN 1 ELSE 0)
    /\ [](byte_size = SumSize(buffer))
    /\ [][\A i \in TaskIds : tasks'[i].events = tasks[i].events]_vars
    /\ [][(Len(tasks') = Len(tasks) + 1 /\ received' = received) =>
             /\ tasks'[Len(tasks')].events = buffer
             /\ buffer' = <<>>
             /\ byte_size' = 0]_vars

\* two batches handed over and a third one accumulating
AtomicSnapshotWitness ==
    /\ Len(tasks) = 2
    /\ tasks[1].events # <<>>
    /\ tasks[2].events # <<>>
    /\ buffer # <<>>

\* the count or size limit is reached by the Messages of a batch
LimitReached(events) == Len(events) >= max_elements \/ SumSize(events) >= max_size

\* C19: a flush task is created only in a loop iteration in which the armed
\* timer has expired or the count or size limit is reached; with the buffer
\* below both limits and the timer not expired no batch is handed over.
FlushOnlyOnTrigger ==
    [][\A task \in NewTasks :
          /\ timer = "fired" \/ LimitReached(task.events)
          /\ task.cause = "timeout" => timer = "fired"
          /\ task.cause = "limit" => LimitReached(task.events)]_vars

\* after a timer flush and a limit flush, a Message waits in the buffer below
\* both limits with its timer running, and no third flush was made
FlushOnlyOnTriggerWitness ==
    /\ Len(tasks) = 2
    /\ \E i \in TaskIds : tasks[i].cause = "timeout" /\ ~LimitReached(tasks[i].events)
    /\ \E i \in TaskIds : tasks[i].cause = "limit"
    /\ buffer # <<>>
    /\ ~LimitReached(buffer)
    /\ timer = "armed"

====
